---- MODULE Spec2Model ----
(***************************************************************************)
(* Model of zarrs_python/utils.py: the selection-to-slice translation      *)
(* (make_slice_selection, selector_tuple_to_slice_selection), the shape    *)
(* computation (resulting_shape_from_index, get_shape_for_selector), the   *)
(* batch construction (make_chunk_info_for_rust_with_indices) and the      *)
(* thread-pool sizing (get_max_threads).                                   *)
(*                                                                         *)
(* The functions are pure; each specification below draws the arguments    *)
(* of one function in Init and applies the function in its actions.        *)
(* make_chunk_info_for_rust_with_indices is modelled loop iteration by     *)
(* loop iteration so that the state between its two passes is visible.     *)
(***************************************************************************)
EXTENDS Integers, Sequences, FiniteSets

VARIABLES
    selector_tuple,   \* argument of selector_tuple_to_slice_selection
    slice_selection,  \* its outcome (NotCalled before the call)
    shape_args,       \* arguments of get_shape_for_selector
    shape_result,     \* its outcome (NotCalled before the call)
    batch_info,       \* argument of make_chunk_info_for_rust_with_indices
    drop_axes,        \* argument of make_chunk_info_for_rust_with_indices
    pc,               \* position inside make_chunk_info_for_rust_with_indices
    i,                \* index of the entry the current loop is at
    ls,               \* the list under construction by list(...) at the return
    engine,           \* the value handed to the caller (the codec engine)
    raised,           \* the exception that left the function, or NoError
    cpu_count,        \* what os.cpu_count() reports on this machine
    thread_counts     \* values returned by the calls of get_max_threads

vars == <<selector_tuple, slice_selection, shape_args, shape_result,
          batch_info, drop_axes, pc, i, ls, engine, raised,
          cpu_count, thread_counts>>

(***************************************************************************)
(* Bounds of the model.                                                    *)
(***************************************************************************)
MaxRank == 2      \* longest selection tuple and highest array rank
MaxDim == 2       \* largest size of an array dimension
MaxArrLen == 3    \* longest index array
MaxEntries == 2   \* longest batch
MaxCpu == 23      \* largest reported cpu count
MaxCalls == 4     \* most calls of get_max_threads

(***************************************************************************)
(* Python values.                                                          *)
(***************************************************************************)
None == 0 - 1000             \* Python's None, outside every integer range used
NotCalled == [err |-> "not called"]
NoError == "none"

Integer(n) == [tag |-> "int", value |-> n]
Slice(a, b, c) == [tag |-> "slice", start |-> a, stop |-> b, step |-> c]
EllipsisSel == [tag |-> "ellipsis"]
IndexArray(p) == [tag |-> "array", positions |-> p]

\* A SelectorTuple is a bare slice, a bare ndarray or a tuple of selectors.
Bare(s) == [bare |-> TRUE, items |-> <<s>>]
Tuple(t) == [bare |-> FALSE, items |-> t]

is_slice(s) == s.tag = "slice"
is_ndarray(s) == s.tag = "array"
is_integer(s) == s.tag = "int"

Ok(v) == [err |-> NoError, val |-> v]
Raise(e) == [err |-> e]

Min(a, b) == IF a < b THEN a ELSE b
Max(a, b) == IF a > b THEN a ELSE b

RECURSIVE Count(_, _, _)
\* sum(P(x) for x in seq), with P given as the set of tags that count
Count(seq, tags, k) ==
    IF k > Len(seq) THEN 0
    ELSE (IF seq[k].tag \in tags THEN 1 ELSE 0) + Count(seq, tags, k + 1)

(***************************************************************************)
(* make_slice_selection                                                    *)
(***************************************************************************)
\* np.diff of a one-dimensional array
np_diff(a) == [k \in 1..(Len(a) - 1) |-> a[k + 1] - a[k]]

\* (diff != 1).any() and (diff != 0).any(), with the strict variant that
\* only lets unit steps through
IsDiscontiguousStrict(diff) == \E k \in 1..Len(diff) : diff[k] # 1

IsDiscontiguous(diff) ==
    /\ \E k \in 1..Len(diff) : diff[k] # 1
    /\ \E k \in 1..Len(diff) : diff[k] # 0

\* slice(dim_selection[0], dim_selection[-1] + 1, 1), with the variant that
\* forgets the + 1
RunSliceExclusive(a) == Slice(a[1], a[Len(a)], 1)

RunSlice(a) == Slice(a[1], a[Len(a)] + 1, 1)

\* One iteration of the loop over the selection: the slice appended to ls,
\* or the exception raised.
DimSlice(dim_selection) ==
    IF is_integer(dim_selection)
    THEN Ok(Slice(dim_selection.value, dim_selection.value + 1, 1))
    ELSE IF is_ndarray(dim_selection)
    THEN LET a == dim_selection.positions
         IN  IF Len(a) = 1
             THEN Ok(Slice(a[1], a[1] + 1, 1))
             ELSE IF IsDiscontiguous(np_diff(a))
                  THEN Raise("DiscontiguousArrayError")
                  ELSE Ok(RunSlice(a))
    ELSE Ok(dim_selection)

RECURSIVE SliceLoop(_, _, _)
SliceLoop(selection, k, acc) ==
    IF k > Len(selection) THEN Ok(acc)
    ELSE LET r == DimSlice(selection[k])
         IN  IF r.err # NoError THEN r
             ELSE SliceLoop(selection, k + 1, Append(acc, r.val))

\* The check after the loop: the count of ndarrays equals the count of
\* slices equals the length of the selection.
OnlyArrays(selection) ==
    /\ Count(selection, {"array"}, 1) = Count(selection, {"slice"}, 1)
    /\ Count(selection, {"slice"}, 1) = Len(selection)

make_slice_selection(selection) ==
    LET r == SliceLoop(selection, 1, <<>>)
    IN  IF r.err # NoError THEN r
        ELSE IF OnlyArrays(selection) THEN Raise("DiscontiguousArrayError")
        ELSE r

(***************************************************************************)
(* selector_tuple_to_slice_selection                                       *)
(***************************************************************************)
AllSlices(items) == \A k \in 1..Len(items) : is_slice(items[k])

\* Iterating a bare one-dimensional ndarray yields its elements, which are
\* integers.
Elements(a) == [k \in 1..Len(a) |-> Integer(a[k])]

\* The variant that rebuilds every slice with an explicit step
WithStep(s) == Slice(s.start, s.stop, IF s.step = None THEN 1 ELSE s.step)

selector_tuple_to_slice_selection_rebuilt(st) ==
    IF st.bare /\ is_slice(st.items[1]) THEN Ok(<<WithStep(st.items[1])>>)
    ELSE IF st.bare THEN make_slice_selection(Elements(st.items[1].positions))
    ELSE IF AllSlices(st.items)
         THEN Ok([k \in 1..Len(st.items) |-> WithStep(st.items[k])])
    ELSE make_slice_selection(st.items)

selector_tuple_to_slice_selection(st) ==
    IF st.bare /\ is_slice(st.items[1]) THEN Ok(st.items)
    ELSE IF st.bare THEN make_slice_selection(Elements(st.items[1].positions))
    ELSE IF AllSlices(st.items) THEN Ok(st.items)
    ELSE make_slice_selection(st.items)

(***************************************************************************)
(* Python sequence indexing and slice.indices                              *)
(***************************************************************************)
\* seq[k] for a 0-based k that may be negative
PyIndex(seq, k) ==
    LET j == IF k < 0 THEN k + Len(seq) ELSE k
    IN  IF j < 0 \/ j >= Len(seq) THEN Raise("IndexError") ELSE Ok(seq[j + 1])

\* seq[a:b] for 0-based bounds that may be negative or out of range
PySlice(seq, a, b) ==
    LET n == Len(seq)
        lo == IF a < 0 THEN Max(a + n, 0) ELSE Min(a, n)
        hi == IF b < 0 THEN Max(b + n, 0) ELSE Min(b, n)
    IN  IF hi <= lo THEN <<>> ELSE SubSeq(seq, lo + 1, hi)

\* slice.indices(length) for a step that is None or not zero: <<start, stop>>
SliceIndices(s, length) ==
    LET step == IF s.step = None THEN 1 ELSE s.step
        lower == IF step < 0 THEN 0 - 1 ELSE 0
        upper == IF step < 0 THEN length - 1 ELSE length
        Adjust(v, dflt) ==
            IF v = None THEN dflt
            ELSE IF v < 0 THEN Max(v + length, lower)
            ELSE Min(v, upper)
    IN  <<Adjust(s.start, IF step < 0 THEN upper ELSE lower),
          Adjust(s.stop, IF step < 0 THEN lower ELSE upper)>>

(***************************************************************************)
(* resulting_shape_from_index                                              *)
(***************************************************************************)
\* idx.shape for the ndarrays of the index tuple (all one-dimensional)
RECURSIVE advanced_index_shapes(_, _)
advanced_index_shapes(index_tuple, k) ==
    IF k > Len(index_tuple) THEN <<>>
    ELSE (IF is_ndarray(index_tuple[k])
          THEN <<Len(index_tuple[k].positions)>> ELSE <<>>)
         \o advanced_index_shapes(index_tuple, k + 1)

\* np.broadcast_shapes of one-dimensional shapes
broadcast_shapes(shapes) ==
    LET sizes == {shapes[k] : k \in 1..Len(shapes)}
        big == sizes \ {1}
    IN  IF Cardinality(big) > 1 THEN Raise("ValueError")
        ELSE IF big = {} THEN Ok(<<1>>)
        ELSE Ok(<<CHOOSE m \in big : TRUE>>)

\* idx.step is not None and idx.step > 1, with the variant that lets a
\* step of 2 through
StepUnsupportedAboveTwo(idx) == idx.step # None /\ idx.step > 2

StepUnsupported(idx) == idx.step # None /\ idx.step > 1

\* The loop over index_tuple: result_shape and basic_shape_index after the
\* k-th index onwards has been processed.
RECURSIVE IndexLoop(_, _, _, _, _)
IndexLoop(array_shape, index_tuple, k, result_shape, basic_shape_index) ==
    IF k > Len(index_tuple)
    THEN Ok([result_shape |-> result_shape,
             basic_shape_index |-> basic_shape_index])
    ELSE LET idx == index_tuple[k]
         IN  IF is_integer(idx)
             THEN IndexLoop(array_shape, index_tuple, k + 1, result_shape,
                            basic_shape_index + 1)
             ELSE IF is_slice(idx)
             THEN IF StepUnsupported(idx)
                  THEN Raise("DiscontiguousArrayError")
                  ELSE LET dim == PyIndex(array_shape, basic_shape_index)
                       IN  IF dim.err # NoError THEN dim
                           ELSE LET se == SliceIndices(idx, dim.val)
                                IN  IndexLoop(array_shape, index_tuple, k + 1,
                                              Append(result_shape, se[2] - se[1]),
                                              basic_shape_index + 1)
             ELSE IF idx.tag = "ellipsis"
             THEN LET num_to_fill == Len(array_shape) - Len(index_tuple) + 1
                  IN  IndexLoop(array_shape, index_tuple, k + 1,
                                result_shape \o PySlice(array_shape, basic_shape_index,
                                                        basic_shape_index + num_to_fill),
                                basic_shape_index + num_to_fill)
             ELSE IndexLoop(array_shape, index_tuple, k + 1, result_shape,
                            basic_shape_index)

\* The broadcast block and the loop: everything before the padding step
Indexed(array_shape, index_tuple) ==
    LET adv == advanced_index_shapes(index_tuple, 1)
        b == IF adv = <<>> THEN Ok(<<>>) ELSE broadcast_shapes(adv)
    IN  IF b.err # NoError THEN b
        ELSE IndexLoop(array_shape, index_tuple, 1, b.val, Len(adv))

\* Step 4: the remaining dimensions of array_shape
Padded(array_shape, st, pad) ==
    IF st.basic_shape_index < Len(array_shape) /\ pad
    THEN st.result_shape \o PySlice(array_shape, st.basic_shape_index, Len(array_shape))
    ELSE st.result_shape

\* tuple(size for idx, size in enumerate(result_shape) if idx not in drop_axes)
RECURSIVE NotDropped(_, _, _)
NotDropped(result_shape, drop, k) ==
    IF k > Len(result_shape) THEN <<>>
    ELSE (IF (k - 1) \in drop THEN <<>> ELSE <<result_shape[k]>>)
         \o NotDropped(result_shape, drop, k + 1)

\* The variant that removes the dropped axes before the padding step
resulting_shape_from_index_drop_first(array_shape, index_tuple, drop, pad) ==
    LET r == Indexed(array_shape, index_tuple)
    IN  IF r.err # NoError THEN r
        ELSE Ok(Padded(array_shape,
                       [result_shape |-> NotDropped(r.val.result_shape, drop, 1),
                        basic_shape_index |-> r.val.basic_shape_index],
                       pad))

resulting_shape_from_index(array_shape, index_tuple, drop, pad) ==
    LET r == Indexed(array_shape, index_tuple)
    IN  IF r.err # NoError THEN r
        ELSE Ok(NotDropped(Padded(array_shape, r.val, pad), drop, 1))

(***************************************************************************)
(* get_shape_for_selector                                                  *)
(***************************************************************************)
\* A bare slice or ndarray is wrapped into a 1-tuple; items holds it so.
get_shape_for_selector(st, shape, drop, pad) ==
    resulting_shape_from_index(shape, st.items, drop, pad)

(***************************************************************************)
(* make_chunk_info_for_rust_with_indices                                   *)
(***************************************************************************)
\* A batch entry is (byte_getter, chunk_spec, chunk_selection, out_selection);
\* of byte_getter and chunk_spec only chunk_spec.shape takes part.
Entry(shape, chunk_selection, out_selection) ==
    [shape |-> shape, chunk_selection |-> chunk_selection,
     out_selection |-> out_selection]

convert_chunk_to_primitive(entry) == [shape |-> entry.shape]

\* len(shape_chunk_selection) != len(shape_out_selection), with the variant
\* that only notices a chunk view of higher rank
RankDiffersOneWay(shape_chunk_selection, shape_out_selection) ==
    Len(shape_chunk_selection) > Len(shape_out_selection)

RankDiffers(shape_chunk_selection, shape_out_selection) ==
    Len(shape_chunk_selection) # Len(shape_out_selection)

\* The body of the first loop for one entry: NoError or the exception raised
CheckOne(entry, drop) ==
    LET shape_out_selection ==
            get_shape_for_selector(entry.out_selection, entry.shape, {}, FALSE)
        shape_chunk_selection ==
            get_shape_for_selector(entry.chunk_selection, entry.shape, drop, TRUE)
    IN  IF shape_out_selection.err # NoError THEN shape_out_selection.err
        ELSE IF shape_chunk_selection.err # NoError THEN shape_chunk_selection.err
        ELSE IF RankDiffers(shape_chunk_selection.val, shape_out_selection.val)
             THEN "CollapsedDimensionError"
        ELSE NoError

\* One element of the generator of the return statement
BuildOne(entry) ==
    LET out == selector_tuple_to_slice_selection(entry.out_selection)
        chunk == selector_tuple_to_slice_selection(entry.chunk_selection)
    IN  IF out.err # NoError THEN out
        ELSE IF chunk.err # NoError THEN chunk
        ELSE Ok([chunk |-> convert_chunk_to_primitive(entry),
                 out_selection |-> out.val,
                 chunk_selection |-> chunk.val])

\* What the caller holds while list(...) is still consuming the generator:
\* nothing new, the list is local until the return.  The variant hands over
\* the entries as they are built.
HandedWhileBuildingEager(handed, built) == built

HandedWhileBuilding(handed, built) == handed

(***************************************************************************)
(* get_max_threads                                                         *)
(***************************************************************************)
\* The variant without the "or 1"
get_max_threads_no_default(cpus) == cpus + 4

get_max_threads(cpus) == (IF cpus = None \/ cpus = 0 THEN 1 ELSE cpus) + 4

(***************************************************************************)
(* Arguments the specifications draw from                                  *)
(***************************************************************************)
\* Index arrays that start at 2 and move by 0, 1 or 2 between positions,
\* and the descending runs from 2
DiffValues == {0, 1, 2}

RECURSIVE ArraysOfLen(_)
ArraysOfLen(n) ==
    IF n = 1 THEN {<<2>>}
    ELSE {Append(a, a[Len(a)] + d) : a \in ArraysOfLen(n - 1), d \in DiffValues}

DescendingRun(n) == [k \in 1..n |-> 3 - k]

Arrays ==
    UNION {ArraysOfLen(n) : n \in 1..MaxArrLen}
    \cup {DescendingRun(n) : n \in 2..MaxArrLen}

ReduceSlices == {Slice(None, None, None), Slice(0, 2, None), Slice(0, 2, 2)}

ReduceSelectors ==
    {Integer(1), EllipsisSel} \cup ReduceSlices \cup {IndexArray(a) : a \in Arrays}

Dims == (MaxDim - 1)..MaxDim

SliceBounds == {None, 0 - 1, 0, MaxDim + 1}
BasicSlices == {Slice(a, b, c) : a \in SliceBounds, b \in SliceBounds, c \in {None, 1}}
BasicSelectors == {Integer(0), EllipsisSel} \cup BasicSlices

Iota(n) == [k \in 1..n |-> k - 1]
MixedSlices == {Slice(None, None, None), Slice(0, 1, None), Slice(None, None, 2)}
MixedSelectors ==
    {Integer(0), EllipsisSel} \cup MixedSlices
    \cup {IndexArray(Iota(n)) : n \in 1..MaxArrLen}

ShapeArgs(shape, selection, drop, pad) ==
    [shape |-> shape, selection |-> selection, drop |-> drop, pad |-> pad]

\* The chunk shape of the test fixture, and selections against it
ChunkShape == <<2, 2>>

BatchSelections ==
    { Tuple(<<Slice(0, 2, None), Slice(0, 2, None)>>),
      Tuple(<<Integer(1), Slice(0, 2, None)>>),
      Tuple(<<Slice(0, 2, 2), Slice(0, 2, None)>>),
      Tuple(<<IndexArray(<<0, 1>>), Slice(0, 2, None)>>),
      Tuple(<<IndexArray(<<1, 0>>), Slice(0, 2, None)>>),
      Bare(Slice(0, 2, None)) }

BatchEntries ==
    {Entry(ChunkShape, c, o) : c \in BatchSelections, o \in BatchSelections}

CpuCounts == {None} \cup (0..MaxCpu)

(***************************************************************************)
(* State machines                                                          *)
(***************************************************************************)
IdleSelection == Tuple(<<>>)
IdleShapeArgs == ShapeArgs(<<>>, IdleSelection, {}, FALSE)

ReducerIdle == selector_tuple = IdleSelection /\ slice_selection = NotCalled
ShapeIdle == shape_args = IdleShapeArgs /\ shape_result = NotCalled
BatchIdle ==
    /\ batch_info = <<>> /\ drop_axes = {} /\ pc = "idle" /\ i = 0
    /\ ls = <<>> /\ engine = <<>> /\ raised = NoError
WorkersIdle == cpu_count = None /\ thread_counts = <<>>

reducer_vars == <<selector_tuple, slice_selection>>
shape_vars == <<shape_args, shape_result>>
batch_vars == <<batch_info, drop_axes, pc, i, ls, engine, raised>>
worker_vars == <<cpu_count, thread_counts>>

\* ---- selector_tuple_to_slice_selection ----
InitReduce ==
    /\ \/ \E s \in ReduceSlices : selector_tuple = Bare(s)
       \/ \E a \in Arrays : selector_tuple = Bare(IndexArray(a))
       \/ \E n \in 1..MaxRank : \E t \in [1..n -> ReduceSelectors] :
              selector_tuple = Tuple(t)
    /\ slice_selection = NotCalled
    /\ ShapeIdle /\ BatchIdle /\ WorkersIdle

Reduce ==
    /\ selector_tuple # IdleSelection
    /\ slice_selection = NotCalled
    /\ slice_selection' = selector_tuple_to_slice_selection(selector_tuple)
    /\ UNCHANGED <<selector_tuple, shape_vars, batch_vars, worker_vars>>

NextReduce == Reduce
SpecReduce == InitReduce /\ [][NextReduce]_vars

\* ---- get_shape_for_selector ----
\* Selections no longer than the rank of the array.  Selections of integers,
\* slices and ellipses are drawn densely with nothing dropped and padding
\* on; selections that also hold index arrays are drawn with every
\* combination of dropped axes and padding.
InitShape ==
    /\ \E r \in 1..MaxRank : \E shape \in [1..r -> Dims] :
         \/ \E n \in 1..r : \E t \in [1..n -> BasicSelectors] :
                shape_args = ShapeArgs(shape, Tuple(t), {}, TRUE)
         \/ \E drop \in SUBSET (0..MaxRank) : \E pad \in BOOLEAN :
                \/ \E n \in 1..r : \E t \in [1..n -> MixedSelectors] :
                       shape_args = ShapeArgs(shape, Tuple(t), drop, pad)
                \/ \E s \in MixedSlices \cup {IndexArray(Iota(n)) : n \in 1..MaxArrLen} :
                       shape_args = ShapeArgs(shape, Bare(s), drop, pad)
    /\ shape_result = NotCalled
    /\ ReducerIdle /\ BatchIdle /\ WorkersIdle

Resolve ==
    /\ shape_args # IdleShapeArgs
    /\ shape_result = NotCalled
    /\ shape_result' = get_shape_for_selector(shape_args.selection, shape_args.shape,
                                              shape_args.drop, shape_args.pad)
    /\ UNCHANGED <<shape_args, reducer_vars, batch_vars, worker_vars>>

NextShape == Resolve
SpecShape == InitShape /\ [][NextShape]_vars

\* ---- make_chunk_info_for_rust_with_indices ----
InitBatch ==
    /\ \E n \in 1..MaxEntries : batch_info \in [1..n -> BatchEntries]
    /\ drop_axes \in {{}, {0}}
    /\ pc = "check" /\ i = 1
    /\ ls = <<>> /\ engine = <<>> /\ raised = NoError
    /\ ReducerIdle /\ ShapeIdle /\ WorkersIdle

\* One iteration of the first loop
CheckEntry ==
    /\ pc = "check" /\ i <= Len(batch_info)
    /\ LET e == CheckOne(batch_info[i], drop_axes)
       IN  IF e # NoError
           THEN pc' = "raised" /\ raised' = e /\ i' = i
           ELSE pc' = pc /\ raised' = raised /\ i' = i + 1
    /\ UNCHANGED <<batch_info, drop_axes, ls, engine,
                   reducer_vars, shape_vars, worker_vars>>

\* The first loop is exhausted: list(...) starts to consume the generator
StartBuild ==
    /\ pc = "check" /\ i > Len(batch_info)
    /\ pc' = "build" /\ i' = 1
    /\ UNCHANGED <<batch_info, drop_axes, ls, engine, raised,
                   reducer_vars, shape_vars, worker_vars>>

\* One element of the generator
BuildEntry ==
    /\ pc = "build" /\ i <= Len(batch_info)
    /\ LET b == BuildOne(batch_info[i])
       IN  IF b.err # NoError
           THEN /\ pc' = "raised" /\ raised' = b.err /\ i' = i
                /\ UNCHANGED <<ls, engine>>
           ELSE /\ pc' = pc /\ raised' = raised /\ i' = i + 1
                /\ ls' = Append(ls, b.val)
                /\ engine' = HandedWhileBuilding(engine, Append(ls, b.val))
    /\ UNCHANGED <<batch_info, drop_axes, reducer_vars, shape_vars, worker_vars>>

\* The generator is exhausted: the list is returned
Return ==
    /\ pc = "build" /\ i > Len(batch_info)
    /\ pc' = "returned" /\ engine' = ls
    /\ UNCHANGED <<batch_info, drop_axes, i, ls, raised,
                   reducer_vars, shape_vars, worker_vars>>

NextBatch == CheckEntry \/ StartBuild \/ BuildEntry \/ Return
SpecBatch == InitBatch /\ [][NextBatch]_vars

\* ---- get_max_threads ----
InitWorkers ==
    /\ cpu_count \in CpuCounts
    /\ thread_counts = <<>>
    /\ ReducerIdle /\ ShapeIdle /\ BatchIdle

CallGetMaxThreads ==
    /\ Len(thread_counts) < MaxCalls
    /\ thread_counts' = Append(thread_counts, get_max_threads(cpu_count))
    /\ UNCHANGED <<cpu_count, reducer_vars, shape_vars, batch_vars>>

NextWorkers == CallGetMaxThreads
SpecWorkers == InitWorkers /\ [][NextWorkers]_vars

(***************************************************************************)
(* Properties of selector_tuple_to_slice_selection (SpecReduce)            *)
(***************************************************************************)
Reduced == slice_selection.err # "not called"
ViaMakeSliceSelection ==
    Reduced /\ ~selector_tuple.bare /\ ~AllSlices(selector_tuple.items)

ArrayAxes(items) == {k \in 1..Len(items) : is_ndarray(items[k])}
LongArrayAxes(items) == {k \in ArrayAxes(items) : Len(items[k].positions) >= 2}

UnitRun(a) == \A k \in 1..(Len(a) - 1) : a[k + 1] - a[k] = 1
Repeated(a) == \A k \in 1..(Len(a) - 1) : a[k + 1] - a[k] = 0

\* C1: reducing a selection of two or more axes, every one an IndexArray,
\* fails with a discontiguous-selection error.
C1_AllArraysRejected ==
    (/\ Reduced /\ ~selector_tuple.bare
     /\ Len(selector_tuple.items) >= 2
     /\ ArrayAxes(selector_tuple.items) = 1..Len(selector_tuple.items))
    => slice_selection.err = "DiscontiguousArrayError"

Slice02 == Slice(0, 2, None)
Entry22 == Entry(<<2, 2>>, Tuple(<<Slice02, Slice02>>), Tuple(<<Slice02, Slice02>>))

C7_SlicesUnchanged ==
    /\ (Reduced /\ (selector_tuple.bare => is_slice(selector_tuple.items[1]))
                /\ AllSlices(selector_tuple.items))
       => (slice_selection.err = NoError /\ slice_selection.val = selector_tuple.items)
    /\ CheckOne(Entry22, {}) = NoError
    /\ BuildOne(Entry22).err = NoError
    /\ BuildOne(Entry22).val.out_selection = <<Slice02, Slice02>>
    /\ BuildOne(Entry22).val.chunk_selection = <<Slice02, Slice02>>

C7_Witness ==
    /\ Reduced
    /\ selector_tuple = Tuple(<<Slice02, Slice02>>)
    /\ slice_selection = Ok(<<Slice02, Slice02>>)

Resolved == shape_result.err # "not called"

\* The shape that basic slicing produces: the ellipsis stands for as many
\* full slices as the selection is short of the rank, missing trailing
\* selectors are full slices, an integer removes its axis, and a slice
\* keeps the positions of its axis that lie from start up to, not
\* including, stop (a negative bound counts from the end).
FullSlice == Slice(None, None, None)

RECURSIVE Expanded(_, _, _)
Expanded(items, k, rank) ==
    IF k > Len(items) THEN <<>>
    ELSE (IF items[k].tag = "ellipsis"
          THEN [j \in 1..(rank - (Len(items) - 1)) |-> FullSlice]
          ELSE <<items[k]>>)
         \o Expanded(items, k + 1, rank)

Selected(s, dim) ==
    LET lo == IF s.start = None THEN 0
              ELSE IF s.start < 0 THEN s.start + dim ELSE s.start
        hi == IF s.stop = None THEN dim
              ELSE IF s.stop < 0 THEN s.stop + dim ELSE s.stop
    IN  {p \in 0..(dim - 1) : lo <= p /\ p < hi}

RECURSIVE AxisSizes(_, _, _)
AxisSizes(shape, full, k) ==
    IF k > Len(shape) THEN <<>>
    ELSE (IF is_integer(full[k]) THEN <<>>
          ELSE <<Cardinality(Selected(full[k], shape[k]))>>)
         \o AxisSizes(shape, full, k + 1)

BasicSlicingShape(shape, items) ==
    LET e == Expanded(items, 1, Len(shape))
        full == e \o [j \in 1..(Len(shape) - Len(e)) |-> FullSlice]
    IN  AxisSizes(shape, full, 1)

IsBasicSelection(items) ==
    /\ \A k \in 1..Len(items) :
          /\ items[k].tag \in {"int", "slice", "ellipsis"}
          /\ is_slice(items[k]) => items[k].step \in {None, 1}
    /\ Count(items, {"ellipsis"}, 1) <= 1

\* C2: for a selection of integers, unit-step slices and at most one
\* ellipsis, no longer than the rank, the shape computed with no dropped
\* axes and padding on is the shape basic slicing produces.
C2_MatchesBasicSlicing ==
    (/\ Resolved
     /\ IsBasicSelection(shape_args.selection.items)
     /\ Len(shape_args.selection.items) <= Len(shape_args.shape)
     /\ shape_args.drop = {} /\ shape_args.pad)
    => shape_result = Ok(BasicSlicingShape(shape_args.shape,
                                           shape_args.selection.items))

\* The sizes of a shape at the positions not listed in drop, in order
Remaining(shape, drop) ==
    LET kept == {k \in 0..(Len(shape) - 1) : k \notin drop}
        Nth(j) == CHOOSE k \in kept : Cardinality({m \in kept : m < k}) = j - 1
    IN  [j \in 1..Cardinality(kept) |-> shape[Nth(j) + 1]]

\* C9: the result with dropped axes D is the result with no dropped axes,
\* assembled and padded, with the positions listed in D removed and the
\* remaining sizes kept in order; an index of D beyond the rank removes
\* nothing.
C9_DropAfterPadding ==
    Resolved =>
        LET whole == resulting_shape_from_index(shape_args.shape,
                                                shape_args.selection.items,
                                                {}, shape_args.pad)
        IN  /\ shape_result.err = whole.err
            /\ shape_result.err = NoError =>
                   shape_result.val = Remaining(whole.val, shape_args.drop)

C9_Witness ==
    /\ Resolved
    /\ shape_args.shape = <<1, 2>>
    /\ shape_args.selection = Tuple(<<FullSlice>>)
    /\ shape_args.drop = {0} /\ shape_args.pad
    /\ shape_result = Ok(<<2>>)

(***************************************************************************)
(* Properties of make_chunk_info_for_rust_with_indices (SpecBatch)         *)
(***************************************************************************)
Terminal == pc \in {"returned", "raised"}

OutShape(entry) ==
    get_shape_for_selector(entry.out_selection, entry.shape, {}, FALSE)
ChunkViewShape(entry) ==
    get_shape_for_selector(entry.chunk_selection, entry.shape, drop_axes, TRUE)

\* Both shapes resolve and their ranks differ / agree
RanksDiffer(entry) ==
    LET o == OutShape(entry)
        c == ChunkViewShape(entry)
    IN  o.err = NoError /\ c.err = NoError /\ Len(o.val) # Len(c.val)
RanksAgree(entry) ==
    LET o == OutShape(entry)
        c == ChunkViewShape(entry)
    IN  o.err = NoError /\ c.err = NoError /\ Len(o.val) = Len(c.val)

WideStep(slices) ==
    \E k \in 1..Len(slices) :
        is_slice(slices[k]) /\ slices[k].step # None /\ slices[k].step > 1
HoldsWideStep(entry) ==
    WideStep(entry.out_selection.items) \/ WideStep(entry.chunk_selection.items)

\* The entries whose ranks differ, the entries that hold a slice with
\* step > 1, and the smallest element of a non-empty set of entries
Entries == 1..Len(batch_info)
Mismatched == {k \in Entries : RanksDiffer(batch_info[k])}
Stepped == {k \in Entries : HoldsWideStep(batch_info[k])}
First(S) == CHOOSE k \in S : \A j \in S : k <= j

\* C4 as stated: whenever the ranks of some entry differ, the call fails
\* with a collapsed-dimension error.
C4_RankMismatchRaisesCollapsed ==
    (Terminal /\ Mismatched # {})
    => (pc = "raised" /\ raised = "CollapsedDimensionError")

\* C4 amended: whenever the ranks of some entry differ the call fails, with
\* a collapsed-dimension error unless the shape computation of an earlier
\* entry has already raised for a slice with step > 1, and then with that
\* discontiguous-selection error; every entry of a returned batch has equal
\* output-relative and chunk-relative rank.
C4_RankMismatchFails ==
    /\ (Terminal /\ Mismatched # {}) =>
           /\ pc = "raised"
           /\ raised = IF \E j \in Stepped : j < First(Mismatched)
                       THEN "DiscontiguousArrayError"
                       ELSE "CollapsedDimensionError"
    /\ pc = "returned" => \A k \in Entries : RanksAgree(batch_info[k])

C4_Witness ==
    /\ pc = "raised" /\ raised = "CollapsedDimensionError"
    /\ i \in Mismatched
    /\ Len(ChunkViewShape(batch_info[i]).val) = 1
    /\ Len(OutShape(batch_info[i]).val) = 2

\* C5 as stated: whenever some entry holds a slice with step > 1, the call
\* fails with a discontiguous-selection error.
C5_WideStepRaisesDiscontiguous ==
    (Terminal /\ Stepped # {})
    => (pc = "raised" /\ raised = "DiscontiguousArrayError")

\* C5 amended: no returned batch holds a slice with step > 1; whenever some
\* entry holds one the call fails in the first loop, before anything is
\* built, with the discontiguous-selection error of the shape computation
\* unless the rank check of an earlier entry has already failed, and then
\* with that collapsed-dimension error.
C5_NoWideStepReturned ==
    /\ pc = "returned" =>
           \A k \in 1..Len(engine) :
               ~WideStep(engine[k].out_selection) /\ ~WideStep(engine[k].chunk_selection)
    /\ (Terminal /\ Stepped # {}) =>
           /\ pc = "raised" /\ ls = <<>>
           /\ raised = IF \E j \in Mismatched : j < First(Stepped)
                       THEN "CollapsedDimensionError"
                       ELSE "DiscontiguousArrayError"

C5_Witness ==
    /\ pc = "raised" /\ raised = "DiscontiguousArrayError"
    /\ i \in Stepped /\ ls = <<>> /\ engine = <<>>

\* C6: nothing is handed over unless every entry has passed the shape check
\* and the reduction of both of its selections; when either fails for any
\* entry, whatever its position, the call raises and hands over nothing.
Validated(entry) ==
    CheckOne(entry, drop_axes) = NoError /\ BuildOne(entry).err = NoError

C6_AllOrNothing ==
    /\ engine # <<>> =>
           /\ pc = "returned"
           /\ Len(engine) = Len(batch_info)
           /\ \A k \in Entries : Validated(batch_info[k])
    /\ pc = "raised" => engine = <<>>
    /\ (Terminal /\ \E k \in Entries : ~Validated(batch_info[k])) =>
           (pc = "raised" /\ engine = <<>>)

C6_Witness ==
    /\ pc = "raised" /\ raised = "DiscontiguousArrayError"
    /\ i = 2 /\ Len(ls) = 1 /\ Validated(batch_info[1])
    /\ engine = <<>>

(***************************************************************************)
(* Properties of get_max_threads (SpecWorkers)                             *)
(***************************************************************************)
Calls == 1..Len(thread_counts)

\* C8 as stated: every call returns the reported parallelism plus 4, the
\* same value on every call, and at least 5, also when the parallelism is
\* unknown or reported as 0.
C8_ParallelismPlusFour ==
    \A k \in Calls :
        /\ cpu_count # None => thread_counts[k] = cpu_count + 4
        /\ thread_counts[k] = thread_counts[1]
        /\ thread_counts[k] >= 5

\* C8 amended: every call returns the reported parallelism plus 4 when the
\* parallelism is known and at least 1, and 5 when it is unknown or
\* reported as 0; the value is the same on every call and at least 5.
C8_ParallelismPlusFourFloored ==
    \A k \in Calls :
        /\ (cpu_count # None /\ cpu_count >= 1) => thread_counts[k] = cpu_count + 4
        /\ (cpu_count = None \/ cpu_count = 0) => thread_counts[k] = 5
        /\ thread_counts[k] = thread_counts[1]
        /\ thread_counts[k] >= 5

C8_Witness ==
    /\ cpu_count = 0
    /\ Len(thread_counts) >= 2
    /\ thread_counts[1] = 5 /\ thread_counts[2] = 5

====
